---- MODULE Spec2Model ----
(***************************************************************************)
(* Model of the content-hash functions of go-dropbox (files.go):           *)
(*   ContentHash(r io.Reader) (string, error)        files.go:761-783      *)
(*   FileContentHash(filename string) (string, error) files.go:787-794     *)
(*                                                                         *)
(* Calls are modelled as processes that step from one Read of the          *)
(* underlying reader to the next.  Readers are any io.Reader over a byte   *)
(* string: a Read may return fewer bytes than the buffer holds, may report *)
(* io.EOF together with the last bytes or in a separate zero-byte Read,    *)
(* and may fail with a read error after a number of bytes.                 *)
(*                                                                         *)
(* SHA-256 is modelled as a collision-free symbolic digest: Sum256(d) is   *)
(* the record [sha256 |-> d].  The block size is scaled from 4 MiB to      *)
(* hashBlockSize bytes so that contents of several blocks can be           *)
(* enumerated; every formula is stated in terms of hashBlockSize.          *)
(***************************************************************************)
EXTENDS Integers, Sequences, FiniteSets, TLC

\* ------------------------------------------------------------------ bounds

\* Longest stream content explored (two full blocks and a remainder).
MaxLen == 5

\* The byte values contents are drawn from.
Bytes == {0, 1}

\* The concurrent calls explored.
Calls == {1, 2}

\* Most SetMode calls made on one UploadInput.
MaxSets == 2

\* The revision strings SetMode is called with.
Revs == {"", "r1", "r2"}

\* ------------------------------------------------------- program constants

\* files.go:757  const hashBlockSize = 4 * 1024 * 1024   (scaled to 2 bytes)
hashBlockSize == 2

\* ------------------------------------------------------------ value model

\* error values: nil, io.EOF, the error of os.Open, the error a reader fails with
Nil == "nil"
EOF == "EOF"
ErrOpen == "open error"
ReadErrors == {"read error A", "read error B"}

\* failAt value of a reader that never fails: it delivers content, then io.EOF
NoFail == -1

\* sha256.Sum256(data) / hash.Hash.Sum over the data written: a collision-free
\* digest of its input
Sum256(data) == [sha256 |-> data]

\* fmt.Sprintf("%x", digest): the hex text of a digest; a string is a sequence
\* of characters, "" the empty one
EmptyString == << >>
SprintfHex(digest) == <<"hex", digest>>

Min(a, b) == IF a < b THEN a ELSE b

\* all byte strings of at most n bytes
ByteStrings(n) == UNION {[1..k -> Bytes] : k \in 0..n}

\* make([]byte, hashBlockSize): a zeroed buffer
NewBuf == [i \in 1..hashBlockSize |-> 0]

VARIABLES
  content,     \* the bytes of the stream / file the readers are over
  pc,          \* pc[c]: where call c is
  kind,        \* kind[c]: "reader" (ContentHash called directly), "file" (FileContentHash)
  failAt,      \* failAt[c]: bytes reader c delivers before it fails, or NoFail
  pos,         \* pos[c]: bytes reader c has delivered
  buf,         \* buf[c]: ContentHash's buf
  resultHash,  \* resultHash[c]: the data written to resultHash (a sequence of block digests)
  n,           \* n[c]: ContentHash's n
  err,         \* err[c]: ContentHash's err
  hret,        \* hret[c]: what ContentHash returned
  ret,         \* ret[c]: what the call returned
  handles,     \* handles[c]: file handles call c holds open
  opens,       \* opens[c]: file handles call c has acquired (history)
  reads,       \* reads[c]: the results of the Reads call c issued (history)
  Mode,        \* the Mode field of an UploadInput i
  sets,        \* the arguments of the SetMode calls made on i (history)
  modeRet      \* what GetMode returned, when it was the last call on i: <<>> or <<result>>

\* the state of the UploadInput
upload == <<Mode, sets, modeRet>>

\* the state of the content-hash calls
hashing == <<content, pc, kind, failAt, pos, buf, resultHash, n, err, hret, ret,
             handles, opens, reads>>

vars == <<content, pc, kind, failAt, pos, buf, resultHash, n, err, hret, ret,
          handles, opens, reads, Mode, sets, modeRet>>

NoResult == [hash |-> EmptyString, err |-> "none"]

\* files.go:27-35   type WriteMode string and its constants
WriteModeAdd == "add"
WriteModeOverwrite == "overwrite"
WriteModeUpdate == "update"

\* The values UploadInput.Mode (an interface{}) holds: nil, a WriteMode, a
\* *writeModeUpdate{Tag, Rev}, or a value of any other type (here a string).
NilMode == [type |-> "nil", mode |-> "", Tag |-> "", Rev |-> ""]
WriteModeValue(m) == [type |-> "WriteMode", mode |-> m, Tag |-> "", Rev |-> ""]
OtherTypeMode == [type |-> "string", mode |-> "add", Tag |-> "", Rev |-> ""]

\* files.go:44-49   newWriteModeUpdate
newWriteModeUpdate(rev) ==
  [type |-> "*writeModeUpdate", mode |-> "", Tag |-> "update", Rev |-> rev]

\* files.go:525-529   NewUploadInput: Mode is WriteModeAdd
NewUploadInput ==
  /\ Mode = WriteModeValue(WriteModeAdd)
  /\ sets = << >>
  /\ modeRet = << >>

Init ==
  /\ NewUploadInput
  /\ content \in ByteStrings(MaxLen)
  /\ pc = [c \in Calls |-> "idle"]
  /\ kind = [c \in Calls |-> "none"]
  /\ failAt = [c \in Calls |-> NoFail]
  /\ pos = [c \in Calls |-> 0]
  /\ buf = [c \in Calls |-> NewBuf]
  /\ resultHash = [c \in Calls |-> << >>]
  /\ n = [c \in Calls |-> 0]
  /\ err = [c \in Calls |-> Nil]
  /\ hret = [c \in Calls |-> NoResult]
  /\ ret = [c \in Calls |-> NoResult]
  /\ handles = [c \in Calls |-> 0]
  /\ opens = [c \in Calls |-> 0]
  /\ reads = [c \in Calls |-> << >>]

\* ------------------------------------------------------------- the reader

\* The bytes reader c still delivers, and what it reports once they are out.
Limit(c) == IF failAt[c] = NoFail THEN Len(content) ELSE failAt[c]
EndErrs(c) == IF failAt[c] = NoFail THEN {EOF} ELSE ReadErrors

\* r.Read(buf) with len(buf) = hashBlockSize: the (n, err) pairs the io.Reader
\* contract allows reader c to return now.  With bytes left, any 1..min(len(buf),
\* left) of them with a nil error; the last bytes may also come with the final
\* error (io.EOF or the read error); with none left, 0 bytes and the final error.
ReadResults(c) ==
  LET left == Limit(c) - pos[c] IN
    {[n |-> k, err |-> Nil] : k \in 1..Min(hashBlockSize, left)}
      \cup (IF left <= hashBlockSize
              THEN {[n |-> left, err |-> e] : e \in EndErrs(c)}
              ELSE {})

\* buf after a Read of k bytes at the reader's position: the first k bytes
\* are overwritten, the rest keep what an earlier Read left there.
FillBuf(b, c, k) ==
  [i \in 1..hashBlockSize |-> IF i <= k THEN content[pos[c] + i] ELSE b[i]]

\* ------------------------------------------------------------ ContentHash

\* files.go:765, 774   if err != nil && err != io.EOF
IsReadFailure(e) == e # Nil /\ e # EOF

\* files.go:769, 778   bufHash := sha256.Sum256(buf[:n])
BlockDigest(b, k) == Sum256(SubSeq(b, 1, k))

\* mutant: the digest is written without the n > 0 test
WriteBlock_NoGuard(h, b, k) == Append(h, BlockDigest(b, k))

\* files.go:768-771, 777-780   if n > 0 { ...; resultHash.Write(bufHash[:]) }
WriteBlock(h, b, k) == IF k > 0 THEN Append(h, BlockDigest(b, k)) ELSE h

\* mutant: the loop goes on until the reader reports an error or io.EOF
LoopCond_UntilEnd(k, e) == e = Nil

\* mutant: the loop goes on after every full block, whatever err is
LoopCond_AnyFullBlock(k, e) == k = hashBlockSize

\* files.go:772   for n == hashBlockSize && err == nil
LoopCond(k, e) == k = hashBlockSize /\ e = Nil

\* mutant: the read error is dropped, "" returned with a nil error
FailResult_DropsError(e) == [hash |-> EmptyString, err |-> Nil]

\* files.go:766, 775   return "", err
FailResult(e) == [hash |-> EmptyString, err |-> e]

\* files.go:782   return fmt.Sprintf("%x", resultHash.Sum(nil)), nil
HashResult(h) == [hash |-> SprintfHex(Sum256(h)), err |-> Nil]

\* ContentHash returns res in call c: a direct call is over, FileContentHash
\* still has its deferred f.Close() to run.
Returned(c, res) ==
  /\ hret' = [hret EXCEPT ![c] = res]
  /\ IF kind[c] = "reader"
       THEN /\ pc' = [pc EXCEPT ![c] = "done"]
            /\ ret' = [ret EXCEPT ![c] = res]
       ELSE /\ pc' = [pc EXCEPT ![c] = "close"]
            /\ ret' = ret

\* One Read and what ContentHash does with its result (files.go:764-771 and
\* 773-780), from buffer b and accumulator h.
ReadStep(c, b, h) ==
  \E r \in ReadResults(c) :
    LET b2 == FillBuf(b, c, r.n) IN
      /\ pos' = [pos EXCEPT ![c] = @ + r.n]
      /\ reads' = [reads EXCEPT ![c] =
                     Append(@, [n |-> r.n, err |-> r.err, data |-> SubSeq(b2, 1, r.n)])]
      /\ buf' = [buf EXCEPT ![c] = b2]
      /\ n' = [n EXCEPT ![c] = r.n]
      /\ err' = [err EXCEPT ![c] = r.err]
      /\ IF IsReadFailure(r.err)
           THEN /\ resultHash' = [resultHash EXCEPT ![c] = h]
                /\ Returned(c, FailResult(r.err))
           ELSE /\ resultHash' = [resultHash EXCEPT ![c] = WriteBlock(h, b2, r.n)]
                /\ pc' = [pc EXCEPT ![c] = "loop"]
                /\ UNCHANGED <<hret, ret>>

\* A caller invokes ContentHash(r) on a reader over content, which fails after
\* f bytes (or never).
CallContentHash(c) ==
  /\ pc[c] = "idle"
  /\ \E f \in {NoFail} \cup 0..Len(content) :
       failAt' = [failAt EXCEPT ![c] = f]
  /\ kind' = [kind EXCEPT ![c] = "reader"]
  /\ pc' = [pc EXCEPT ![c] = "hash"]
  /\ UNCHANGED <<content, pos, buf, resultHash, n, err, hret, ret, handles, opens, reads>>
  /\ UNCHANGED upload

\* mutant: resultHash is not created per call; a call goes on from what
\* another call has written to it
ContentHashFirstRead_SharedHash(c) ==
  /\ pc[c] = "hash"
  /\ ReadStep(c, NewBuf, resultHash[CHOOSE d \in Calls : d # c])
  /\ UNCHANGED <<content, kind, failAt, handles, opens>>
  /\ UNCHANGED upload

\* files.go:762-771   buf, resultHash, the first Read
ContentHashFirstRead(c) ==
  /\ pc[c] = "hash"
  /\ ReadStep(c, NewBuf, << >>)
  /\ UNCHANGED <<content, kind, failAt, handles, opens>>
  /\ UNCHANGED upload

\* files.go:772-781   one iteration of the loop
ContentHashLoopRead(c) ==
  /\ pc[c] = "loop"
  /\ LoopCond(n[c], err[c])
  /\ ReadStep(c, buf[c], resultHash[c])
  /\ UNCHANGED <<content, kind, failAt, handles, opens>>
  /\ UNCHANGED upload

\* files.go:772, 782   the loop ends, the hex digest is returned
ContentHashReturn(c) ==
  /\ pc[c] = "loop"
  /\ ~LoopCond(n[c], err[c])
  /\ Returned(c, HashResult(resultHash[c]))
  /\ UNCHANGED <<content, kind, failAt, pos, buf, resultHash, n, err, handles, opens, reads>>
  /\ UNCHANGED upload

\* -------------------------------------------------------- FileContentHash

\* mutant: the open error is ignored and the hash of no content returned
OpenFailResult_HashOfEmpty(e) == HashResult(<< >>)

\* files.go:790   return "", err
OpenFailResult(e) == [hash |-> EmptyString, err |-> e]

\* mutant: only the error of ContentHash is passed on
FileResult_DropsHash(res) == [hash |-> EmptyString, err |-> res.err]

\* files.go:793   return ContentHash(f)
FileResult(res) == res

\* mutant: the file is closed on the success path only
AfterClose_OnlyOnSuccess(h, res) == IF res.err = Nil THEN h - 1 ELSE h

\* files.go:792   defer f.Close(): the handles held once the deferred call ran,
\* whatever res ContentHash returned
AfterClose(h, res) == h - 1

\* files.go:787-793   os.Open(filename) fails, or succeeds and ContentHash(f)
\* is about to run with f.Close() deferred.  The file holds content and its
\* Reads may fail after f bytes (an I/O error).
FileContentHashOpen(c) ==
  /\ pc[c] = "idle"
  /\ kind' = [kind EXCEPT ![c] = "file"]
  /\ \/ /\ pc' = [pc EXCEPT ![c] = "done"]
        /\ ret' = [ret EXCEPT ![c] = OpenFailResult(ErrOpen)]
        /\ UNCHANGED <<failAt, handles, opens>>
     \/ /\ \E f \in {NoFail} \cup 0..Len(content) :
             failAt' = [failAt EXCEPT ![c] = f]
        /\ handles' = [handles EXCEPT ![c] = @ + 1]
        /\ opens' = [opens EXCEPT ![c] = @ + 1]
        /\ pc' = [pc EXCEPT ![c] = "hash"]
        /\ ret' = ret
  /\ UNCHANGED <<content, pos, buf, resultHash, n, err, hret, reads>>
  /\ UNCHANGED upload

\* files.go:792-793   ContentHash(f) has returned: the deferred f.Close() runs
\* and FileContentHash returns what ContentHash returned.
FileContentHashReturn(c) ==
  /\ pc[c] = "close"
  /\ handles' = [handles EXCEPT ![c] = AfterClose(@, hret[c])]
  /\ ret' = [ret EXCEPT ![c] = FileResult(hret[c])]
  /\ pc' = [pc EXCEPT ![c] = "done"]
  /\ UNCHANGED <<content, kind, failAt, pos, buf, resultHash, n, err, hret, opens, reads>>
  /\ UNCHANGED upload

Next ==
  \E c \in Calls :
    \/ CallContentHash(c)
    \/ ContentHashFirstRead(c)
    \/ ContentHashLoopRead(c)
    \/ ContentHashReturn(c)
    \/ FileContentHashOpen(c)
    \/ FileContentHashReturn(c)

Spec == Init /\ [][Next]_vars

\* ------------------------------------------------------------ UploadInput

\* The WriteMode values SetMode is called with: the three constants, the zero
\* value "" and a string that is none of the constants.
WriteModes == {WriteModeAdd, WriteModeOverwrite, WriteModeUpdate, "", "other"}

\* mutant: the update branch is missing, the mode is stored as it is
ModeAfterSet_NoUpdateBranch(mode, rev) == WriteModeValue(mode)

\* files.go:532-538   SetMode: the value stored in i.Mode
ModeAfterSet(mode, rev) ==
  IF mode = WriteModeUpdate THEN newWriteModeUpdate(rev) ELSE WriteModeValue(mode)

\* files.go:541-550   GetMode: the type switch on i.Mode
ModeOf(m) ==
  CASE m.type = "*writeModeUpdate" -> [mode |-> WriteModeUpdate, rev |-> m.Rev]
    [] m.type = "WriteMode" -> [mode |-> m.mode, rev |-> ""]
    [] OTHER -> [mode |-> "", rev |-> ""]

\* files.go:532-538   i.SetMode(mode, rev)
SetMode(mode, rev) ==
  /\ Len(sets) < MaxSets
  /\ Mode' = ModeAfterSet(mode, rev)
  /\ sets' = Append(sets, [mode |-> mode, rev |-> rev])
  /\ modeRet' = << >>
  /\ UNCHANGED hashing

\* files.go:541-550   i.GetMode()
GetMode ==
  /\ modeRet' = <<ModeOf(Mode)>>
  /\ UNCHANGED <<Mode, sets>>
  /\ UNCHANGED hashing

\* files.go:553-557   i.checkMode(): SetMode(WriteModeAdd, "") when Mode is nil
checkMode ==
  /\ IF Mode = NilMode
       THEN /\ Mode' = ModeAfterSet(WriteModeAdd, "")
            /\ sets' = Append(sets, [mode |-> WriteModeAdd, rev |-> ""])
       ELSE UNCHANGED <<Mode, sets>>
  /\ modeRet' = << >>
  /\ UNCHANGED hashing

\* An UploadInput as a caller can have it: from NewUploadInput, a zero
\* UploadInput{} (Mode nil), or with Mode assigned a value of another type;
\* no content-hash call is running.
InitUpload ==
  /\ Mode \in {WriteModeValue(WriteModeAdd), NilMode, OtherTypeMode}
  /\ sets = << >>
  /\ modeRet = << >>
  /\ content = << >>
  /\ pc = [c \in Calls |-> "idle"]
  /\ kind = [c \in Calls |-> "none"]
  /\ failAt = [c \in Calls |-> NoFail]
  /\ pos = [c \in Calls |-> 0]
  /\ buf = [c \in Calls |-> NewBuf]
  /\ resultHash = [c \in Calls |-> << >>]
  /\ n = [c \in Calls |-> 0]
  /\ err = [c \in Calls |-> Nil]
  /\ hret = [c \in Calls |-> NoResult]
  /\ ret = [c \in Calls |-> NoResult]
  /\ handles = [c \in Calls |-> 0]
  /\ opens = [c \in Calls |-> 0]
  /\ reads = [c \in Calls |-> << >>]

NextUpload ==
  \/ \E mode \in WriteModes, rev \in Revs : SetMode(mode, rev)
  \/ GetMode
  \/ checkMode

SpecUpload == InitUpload /\ [][NextUpload]_vars

\* ------------------------------------------------------------------ claims

\* ContentHash has returned in call c (directly, or inside FileContentHash).
HashReturned(c) == pc[c] \in {"close", "done"} /\ reads[c] # << >>

\* Reader c delivers all of content and then io.EOF.
DeliversAll(c) == kind[c] # "none" /\ failAt[c] = NoFail

\* The consecutive hashBlockSize-byte slices of s, the last one the remainder.
RECURSIVE Slices(_)
Slices(s) ==
  IF Len(s) = 0 THEN << >>
  ELSE LET k == Min(hashBlockSize, Len(s))
       IN  <<SubSeq(s, 1, k)>> \o Slices(SubSeq(s, k + 1, Len(s)))

\* The hex digest of the concatenated digests of the slices of s.
SliceHash(s) ==
  LET b == Slices(s)
  IN  SprintfHex(Sum256([i \in 1..Len(b) |-> Sum256(b[i])]))

\* ceil(a / hashBlockSize)
CeilBlocks(a) == (a + hashBlockSize - 1) \div hashBlockSize

\* C1: chunking invariance: any two ContentHash calls on readers that deliver
\* the same content and then end-of-stream return the same result, whatever
\* sizes their Reads return.
C1_ChunkingInvariance ==
  \A c, d \in Calls :
    (/\ kind[c] = "reader" /\ kind[d] = "reader"
     /\ DeliversAll(c) /\ DeliversAll(d)
     /\ pc[c] = "done" /\ pc[d] = "done")
      => ret[c] = ret[d]

\* C2: on a reader that delivers content and then end-of-stream, ContentHash
\* returns the hex digest of the concatenated digests of the consecutive
\* hashBlockSize-byte slices of content, ceil(Len / hashBlockSize) of them.
C2_HashOfSlices ==
  \A c \in Calls :
    (kind[c] = "reader" /\ DeliversAll(c) /\ pc[c] = "done")
      => /\ ret[c] = [hash |-> SliceHash(content), err |-> Nil]
         /\ Len(resultHash[c]) = CeilBlocks(Len(content))

\* C3: ContentHash returns only when the stream is fully consumed or an error
\* occurred: when it returns a hash with a nil error, every byte of the stream
\* has been read.  (The claim adds that the last Read reported end-of-stream:
\* C3_LastReadSawEOF.)
C3_ReturnsOnlyWhenConsumed ==
  \A c \in Calls :
    (HashReturned(c) /\ hret[c].err = Nil) => pos[c] = Len(content)

\* The other half of C3's wording: a return with a nil error follows a Read
\* that reported end-of-stream.
C3_LastReadSawEOF ==
  \A c \in Calls :
    (HashReturned(c) /\ hret[c].err = Nil) => reads[c][Len(reads[c])].err = EOF

\* C4: a reader that delivers some bytes and then fails makes ContentHash
\* return an error and the empty string, under any sizes of the Reads.
C4_MidStreamFailureYieldsError ==
  \A c \in Calls :
    (HashReturned(c) /\ failAt[c] \in 1..Len(content))
      => hret[c].err # Nil /\ hret[c].hash = EmptyString

\* C5: a Read that returns an error other than end-of-stream (with 0 or more
\* bytes) is the last Read issued, and ContentHash returns the empty string
\* with exactly that error; every other return is a non-empty hash with a nil
\* error.
C5_ReadErrorPropagated ==
  \A c \in Calls :
    /\ \A i \in 1..Len(reads[c]) :
         reads[c][i].err \notin {Nil, EOF}
           => /\ i = Len(reads[c])
              /\ HashReturned(c)
              /\ hret[c] = [hash |-> EmptyString, err |-> reads[c][i].err]
    /\ HashReturned(c)
         => \/ hret[c].err = Nil /\ hret[c].hash # EmptyString
            \/ /\ hret[c].err = reads[c][Len(reads[c])].err
               /\ hret[c].err \in ReadErrors
               /\ hret[c].hash = EmptyString

\* C5 witness: ContentHash returned after a second Read that delivered bytes
\* together with a read error.
C5_Witness ==
  \E c \in Calls :
    /\ HashReturned(c)
    /\ Len(reads[c]) = 2
    /\ reads[c][2].n > 0
    /\ reads[c][2].err \in ReadErrors

\* C6: when the first Read reports end-of-stream with 0 bytes (an empty
\* stream), no block digest is written and ContentHash returns the hex digest
\* of the empty accumulator with a nil error.
C6_EmptyStream ==
  \A c \in Calls :
    (reads[c] # << >> /\ reads[c][1].n = 0 /\ reads[c][1].err = EOF)
      => /\ Len(reads[c]) = 1
         /\ resultHash[c] = << >>
         /\ pc[c] \in {"close", "done"}
              => hret[c] = [hash |-> SprintfHex(Sum256(<< >>)), err |-> Nil]

\* C6 witness: ContentHash returned on an empty stream.
C6_Witness ==
  \E c \in Calls :
    /\ pc[c] = "done"
    /\ Len(content) = 0
    /\ reads[c] = <<[n |-> 0, err |-> EOF, data |-> << >>]>>

\* C7: for a stream whose length is a multiple of hashBlockSize, ContentHash
\* writes exactly Len / hashBlockSize block digests, and returns the same
\* result however the reader reports end-of-stream.
C7_ExactMultiple ==
  \A c, d \in Calls :
    (/\ Len(content) % hashBlockSize = 0
     /\ DeliversAll(c) /\ DeliversAll(d)
     /\ HashReturned(c) /\ HashReturned(d))
      => /\ Len(resultHash[c]) = Len(content) \div hashBlockSize
         /\ hret[c] = hret[d]

C9_HandleReleased ==
  \A c \in Calls :
    /\ handles[c] \in {0, 1}
    /\ opens[c] \in {0, 1}
    /\ kind[c] # "file" => opens[c] = 0 /\ handles[c] = 0
    /\ pc[c] = "done" => handles[c] = 0
    /\ (pc[c] = "done" /\ ret[c].err = ErrOpen) => opens[c] = 0

\* C9 witness: FileContentHash returned a read error, its handle released.
C9_Witness ==
  \E c \in Calls :
    /\ kind[c] = "file" /\ pc[c] = "done"
    /\ opens[c] = 1
    /\ ret[c].err \in ReadErrors

\* C10: when os.Open fails, FileContentHash returns the empty string and the
\* open error; no Read is issued and ContentHash is never invoked.
C10_OpenFailure ==
  \A c \in Calls :
    (kind[c] = "file" /\ opens[c] = 0)
      => /\ pc[c] = "done"
         /\ ret[c] = [hash |-> EmptyString, err |-> ErrOpen]
         /\ reads[c] = << >>
         /\ hret[c] = NoResult
         /\ pos[c] = 0

\* C10 witness: FileContentHash returned after a failed open, of a file that
\* is not empty.
C10_Witness ==
  \E c \in Calls :
    /\ kind[c] = "file" /\ pc[c] = "done" /\ opens[c] = 0
    /\ Len(content) > 0

\* ------------------------------------------------- the extent of the defect

\* Bytes delivered to call c by its first i Reads.
RECURSIVE Delivered(_, _)
Delivered(c, i) == IF i = 0 THEN 0 ELSE Delivered(c, i - 1) + reads[c][i].n

\* Every Read of call c filled the buffer or delivered all that was left of
\* content (the behaviour of bytes.Reader and of a regular file).
FilledEveryRead(c) ==
  \A i \in 1..Len(reads[c]) :
    reads[c][i].n = Min(hashBlockSize, Len(content) - Delivered(c, i - 1))

\* What C2 and C3 say does hold of calls whose reader fills every Read: the
\* result is the hash of the slices of content, all of it read.
OnFilledReads_HashOfSlices ==
  \A c \in Calls :
    (DeliversAll(c) /\ HashReturned(c) /\ FilledEveryRead(c))
      => /\ hret[c] = [hash |-> SliceHash(content), err |-> Nil]
         /\ Len(resultHash[c]) = CeilBlocks(Len(content))
         /\ pos[c] = Len(content)

\* What C7 says does hold of them too: a final Read of (0, EOF) after a full
\* block adds no digest.
OnFilledReads_ExactMultiple ==
  \A c, d \in Calls :
    (/\ Len(content) % hashBlockSize = 0
     /\ DeliversAll(c) /\ DeliversAll(d)
     /\ HashReturned(c) /\ HashReturned(d)
     /\ FilledEveryRead(c) /\ FilledEveryRead(d))
      => /\ Len(resultHash[c]) = Len(content) \div hashBlockSize
         /\ hret[c] = hret[d]

\* ------------------------------------------------------ concurrent calls

\* What a call run alone makes of the Read results rs, by the text of
\* ContentHash: the accumulator after them, and the value returned.
RECURSIVE AloneHash(_)
AloneHash(rs) ==
  IF Len(rs) = 0 THEN << >>
  ELSE LET r == rs[Len(rs)]
           h == AloneHash(SubSeq(rs, 1, Len(rs) - 1))
       IN  IF r.err \in {Nil, EOF} /\ r.n > 0 THEN Append(h, Sum256(r.data)) ELSE h

AloneResult(rs) ==
  LET r == rs[Len(rs)]
  IN  IF r.err \in {Nil, EOF}
        THEN [hash |-> SprintfHex(Sum256(AloneHash(rs))), err |-> Nil]
        ELSE [hash |-> EmptyString, err |-> r.err]

\* C11: concurrent calls share no state: under any interleaving, each call's
\* Reads are those of its own reader at its own position, its accumulator,
\* n and err are what its own Reads make them, and it returns what it would
\* return on those Reads when run alone.
C11_NoSharedState ==
  \A c \in Calls :
    /\ pos[c] = Delivered(c, Len(reads[c]))
    /\ \A i \in 1..Len(reads[c]) :
         reads[c][i].data = SubSeq(content, Delivered(c, i - 1) + 1, Delivered(c, i))
    /\ resultHash[c] = AloneHash(reads[c])
    /\ reads[c] # << >> =>
         /\ n[c] = reads[c][Len(reads[c])].n
         /\ err[c] = reads[c][Len(reads[c])].err
    /\ HashReturned(c) => hret[c] = AloneResult(reads[c])
    /\ (pc[c] = "done" /\ reads[c] # << >>) => ret[c] = AloneResult(reads[c])

\* C11 witness: two calls are in flight at once, one between its second and
\* third Read, the other between its first and second, at different positions.
C11_Witness ==
  \E c, d \in Calls :
    /\ pc[c] = "loop" /\ pc[d] = "loop"
    /\ Len(reads[c]) = 2 /\ Len(reads[d]) = 1
    /\ LoopCond(n[c], err[c]) /\ LoopCond(n[d], err[d])
    /\ resultHash[c] # resultHash[d]

\* ------------------------------------------------------------ block sizes

\* The length of the i-th block whose digest call c has written.
BlockLen(c, i) == Len(resultHash[c][i].sha256)

\* C12: every block whose digest is written to the accumulator is exactly
\* hashBlockSize bytes long, except possibly the last one written; no block
\* is longer and none is empty.
C12_BlockSizes ==
  \A c \in Calls :
    \A i \in 1..Len(resultHash[c]) :
      /\ BlockLen(c, i) >= 1
      /\ BlockLen(c, i) <= hashBlockSize
      /\ i < Len(resultHash[c]) => BlockLen(c, i) = hashBlockSize

\* C12 witness: a call has written two full blocks and a shorter last one.
C12_Witness ==
  \E c \in Calls :
    /\ Len(resultHash[c]) = 3
    /\ BlockLen(c, 3) < hashBlockSize
    /\ pc[c] = "done"

\* ------------------------------------------------- bounded reads, termination

\* Call c can take a step.
CanStep(c) ==
  ENABLED (\/ ContentHashFirstRead(c)
           \/ ContentHashLoopRead(c)
           \/ ContentHashReturn(c)
           \/ FileContentHashReturn(c))

\* C13: a further Read is issued only after a Read that returned exactly
\* hashBlockSize bytes with a nil error, so on a reader that delivers at most
\* L bytes ContentHash issues at most L \div hashBlockSize + 1 Reads; and a
\* call that has not returned is never stuck, so it returns within that many
\* Reads.
C13_BoundedReads ==
  \A c \in Calls :
    /\ \A i \in 1..(Len(reads[c]) - 1) :
         reads[c][i].n = hashBlockSize /\ reads[c][i].err = Nil
    /\ Len(reads[c]) <= (Limit(c) \div hashBlockSize) + 1
    /\ pc[c] \in {"hash", "loop", "close"} => CanStep(c)
    /\ (pc[c] = "loop" /\ Len(reads[c]) = (Limit(c) \div hashBlockSize) + 1)
         => ~LoopCond(n[c], err[c])

\* C13 witness: a call has returned after the most Reads its stream allows,
\* three for a stream of two blocks and more.
C13_Witness ==
  \E c \in Calls :
    /\ pc[c] = "done"
    /\ Len(reads[c]) = 3
    /\ Len(reads[c]) = (Limit(c) \div hashBlockSize) + 1

\* -------------------------------------------------------- write-mode round trip

\* What GetMode is to return after SetMode(s.mode, s.rev).
RoundTrip(s) ==
  IF s.mode = WriteModeUpdate
    THEN [mode |-> WriteModeUpdate, rev |-> s.rev]
    ELSE [mode |-> s.mode, rev |-> ""]

\* GetMode after the latest SetMode returns that call's mode, with its
\* revision in update mode only, whatever earlier SetMode calls stored.
GetAfterSet ==
  (modeRet # << >> /\ sets # << >>) => modeRet[1] = RoundTrip(sets[Len(sets)])

\* C14 as stated: the round trip, and GetMode returns ("", "") only when Mode
\* is nil or holds a value of another type.
C14_ModeRoundTrip_Original ==
  /\ GetAfterSet
  /\ (modeRet # << >> /\ modeRet[1] = [mode |-> "", rev |-> ""])
       => Mode.type \notin {"WriteMode", "*writeModeUpdate"}

\* C14, amended: the round trip, and GetMode returns ("", "") only when Mode
\* is nil, holds a value of another type, or holds the empty WriteMode "".
C14_ModeRoundTrip ==
  /\ GetAfterSet
  /\ (modeRet # << >> /\ modeRet[1] = [mode |-> "", rev |-> ""])
       => \/ Mode.type \notin {"WriteMode", "*writeModeUpdate"}
          \/ Mode = WriteModeValue("")

\* C14 witness: SetMode(update, r) with a non-empty revision replaced an
\* earlier SetMode of another mode and revision, and GetMode returned
\* (update, r).
C14_Witness ==
  /\ Len(sets) = 2
  /\ sets[1].mode # WriteModeUpdate /\ sets[1].rev # ""
  /\ sets[2].mode = WriteModeUpdate /\ sets[2].rev \notin {"", sets[1].rev}
  /\ modeRet = <<[mode |-> WriteModeUpdate, rev |-> sets[2].rev]>>

====
